---- MODULE Spec2Model ----
(***************************************************************************)
(* Order-intent lifecycle of the x402 marketplace backend.                 *)
(*                                                                         *)
(* The model follows backend/src/services/order.service.ts: every request  *)
(* (finalizeOrder, cancelOrderIntent) is an asynchronous task that is      *)
(* suspended at each await.  One action of the model is one resumption of  *)
(* a task: the database statement or external HTTP call that the await     *)
(* waits for, together with the synchronous code that runs after it up to  *)
(* the next await.  The order_intents table is the only shared state.      *)
(***************************************************************************)
EXTENDS Integers, Sequences, FiniteSets, TLC

\* ---------------------------------------------------------------- bounds
MaxIntents == 2   \* order intents that createOrderIntent may insert
MaxCalls   == 2   \* finalize / cancel requests issued in one behaviour
MaxClock   == 2   \* last instant of the clock
MaxItems   == 2   \* line items of one initiate request

\* config.orderIntentExpiryMinutes, in ticks of the model's clock
ExpiryTicks == 1
\* usdToMove: smallest units of one MOVE (8 decimals), 100_000_000
MoveUnit == 100000000

IntentIds == 1..MaxIntents
CallIds   == 1..MaxCalls

\* ------------------------------------------------------------ vocabulary
Absent  == "undefined"   \* a JSON field that is not there
NoOrder == "null"        \* shopify_order_* columns are NULL
\* payment_proof column is NULL
NoProof == [transaction |-> "null", signature |-> "null"]
\* .single() found no row (PGRST116)
NoRow ==
    [status |-> "no_row", payment_proof |-> NoProof, shopify_order |-> NoOrder,
     expires_at |-> 0, items |-> <<>>, total_amount |-> "",
     pay_to_address |-> "", network |-> "", asset |-> ""]

\* status column, CHECK constraint of the order_intents table
Statuses == {"pending", "paid", "failed", "expired", "cancelled"}
Terminal == Statuses \ {"pending"}

\* X-PAYMENT headers a caller may send: text that is not base64 of JSON,
\* base64 of the JSON text null, and base64 of a signed payment object.
Headers == {"not-json", "json-null", "signed-payment"}
\* x_payment_header arguments of the verify_payment tool: the same, and
\* base64 of a payment object whose payload has no signature.
ToolHeaders == Headers \cup {"unsigned-payment"}

\* error texts a facilitator response may carry in its "error" field
FacilitatorErrors == {Absent, "rejected"}
\* transaction hash of a settle response (transactionHash / txHash)
TxHashes == {Absent, "0xabc"}

\* stores.pay_to_address values a merchant may configure
Addresses == {"0xA11CE", "0xB0B"}
\* config.movementNetwork and config.movementAsset
MovementNetwork == "movement"
MovementAsset   == "0x1::aptos_coin::AptosCoin"

\* products table: product id -> variant id -> variant.  Product "pX" and
\* variant "vX" are ids that no row carries.
Catalog ==
    [p \in {"pA"} |->
        [v \in {"vA", "vB", "vC"} |->
            CASE v = "vA" -> [price |-> "10.00", available |-> TRUE]
              [] v = "vB" -> [price |-> "0.07",  available |-> TRUE]
              [] v = "vC" -> [price |-> "3.00",  available |-> FALSE]]]

\* A JSON number n + tenths/10, as far as the program distinguishes numbers.
Whole(n) == [int |-> n, tenths |-> 0]
Quantities == {Whole(-1), Whole(0), Whole(1), Whole(2), [int |-> 1, tenths |-> 5]}

\* Line items a request may carry: every quantity on the first variant, and
\* one item for each other variant, missing variant and missing product.
CartItems ==
    {[product_id |-> "pA", variant_id |-> "vA", quantity |-> q] : q \in Quantities}
    \cup {[product_id |-> pv[1], variant_id |-> pv[2], quantity |-> Whole(1)] :
            pv \in {<<"pA", "vB">>, <<"pA", "vC">>, <<"pA", "vX">>, <<"pX", "vB">>}}

\* Item lists of up to MaxItems items; a cart names a variant once.
Carts ==
    {cart \in UNION {[1..n -> CartItems] : n \in 0..MaxItems} :
        \A j, k \in DOMAIN cart : j # k => cart[j].variant_id # cart[k].variant_id}

\* CreateOrderIntentRequest with the single store's id; shipping_address is
\* optional.
Requests ==
    {[items |-> cart, shipping_address |-> a] :
        cart \in Carts, a \in {Absent, "address"}}

\* The request of the specification text's scenario: two of the 10.00 item.
DefaultRequest ==
    [items |-> <<[product_id |-> "pA", variant_id |-> "vA", quantity |-> Whole(2)]>>,
     shipping_address |-> "address"]

\* ------------------------------------------------------------- dispatcher
\* Tool handlers that may be registered: the initiate_checkout handler of the
\* MCP router, and a handler whose behaviour is chosen at each invocation.
Handlers == {"initiateCheckout", "stub"}

\* registerTool(tool, handler) calls a program may make.  A name is any
\* string, the empty one included.
Registrations ==
    {[tool |-> [name |-> "initiate_checkout", description |-> "checkout",
                inputSchema |-> "checkout-schema"],
      handler |-> "initiateCheckout"],
     [tool |-> [name |-> "echo", description |-> "echo v1",
                inputSchema |-> "echo-schema-1"],
      handler |-> "stub"],
     [tool |-> [name |-> "echo", description |-> "echo v2",
                inputSchema |-> "echo-schema-2"],
      handler |-> "stub"],
     [tool |-> [name |-> "", description |-> "unnamed",
                inputSchema |-> "unnamed-schema"],
      handler |-> "stub"]}

\* new Map()
NoTools == <<>>
\* Map.get of a key that is not there
NoEntry ==
    [tool |-> [name |-> Absent, description |-> Absent, inputSchema |-> Absent],
     handler |-> Absent]

\* What one invocation of a handler does: the value it resolves to or the
\* value it rejects with.
HandlerOutcomes ==
    {[kind |-> "string",    threw |-> FALSE, value |-> "done"],
     [kind |-> "object",    threw |-> FALSE, value |-> "{}"],
     [kind |-> "undefined", threw |-> FALSE, value |-> Absent],
     [kind |-> "bigint",    threw |-> FALSE, value |-> "1n"],
     [kind |-> "Error",     threw |-> TRUE,  value |-> "boom"],
     [kind |-> "string",    threw |-> TRUE,  value |-> "boom"]}

\* the request reached no handler
NotInvoked ==
    [handler |-> Absent,
     outcome |-> [kind |-> Absent, threw |-> FALSE, value |-> Absent]]

\* arguments of a tools/call
ToolArguments ==
    {DefaultRequest,
     [items |-> <<[product_id |-> "pA", variant_id |-> "vX", quantity |-> Whole(1)]>>,
      shipping_address |-> "address"]}

Methods == {"initialize", "ping", "tools/list", "tools/call", "resources/list"}

\* JsonRpcRequest.id as the clients number their requests
RequestIds == {1, 2}

\* JSON-RPC requests.  params.name = Absent stands for a request without
\* params or without a name in them.
McpRequests ==
    {[jsonrpc |-> v, id |-> k, method |-> m,
      params |-> [name |-> Absent, arguments |-> DefaultRequest]] :
        v \in {"2.0", "1.0", Absent}, k \in RequestIds, m \in Methods}
    \cup
    {[jsonrpc |-> v, id |-> k, method |-> "tools/call",
      params |-> [name |-> n, arguments |-> a]] :
        v \in {"2.0", "1.0"}, k \in RequestIds,
        n \in {"", "initiate_checkout", "echo", "list_stores"},
        a \in ToolArguments}

\* members of a JsonRpcResponse that are not there
NoResult == [kind |-> Absent, text |-> Absent, isError |-> FALSE, tools |-> <<>>]
NoError  == [code |-> 0, message |-> Absent]
NoResponse ==
    [request |-> [jsonrpc |-> Absent, id |-> 0, method |-> Absent,
                  params |-> [name |-> Absent, arguments |-> DefaultRequest]],
     reply |-> [jsonrpc |-> Absent, id |-> 0, result |-> NoResult, error |-> NoError]]

\* messages of the errors thrown by OrderService
ErrProductNotFound == "Product not found"
ErrVariantNotFound == "Variant not found"
ErrVariantNotAvailable == "Variant not available"
ErrRangeError      == "RangeError: cannot be converted to a BigInt"
ErrValidation      == "Validation error"
ErrToolItems       == "store_id and items are required"
ErrToolShipping    == "shipping_address is required for order fulfillment"
Created            == "created"
ErrNotFound      == "Order intent not found"
ErrNotPending    == "Order intent is not pending"
ErrExpired       == "Order intent has expired"
ErrVerification  == "Payment verification failed"
ErrStoreNotFound == "Store not found"
ErrGetStore      == "Failed to get store"
ErrUpdate        == "Failed to update order intent"
ErrCancelState   == "Can only cancel pending orders"
ErrCancel        == "Failed to cancel order"
ErrOrderNotPending == "Order is not pending"
Returned         == "returned"

VARIABLES
    storeExists,   \* the row of the stores table is present
    intents,       \* order_intents table: IntentIds -> row or NoRow
    issued,        \* number of ids createOrderIntent has generated
    now,           \* the clock read by new Date()
    calls,         \* the requests: CallIds -> task record
    payTo,         \* stores.pay_to_address of the store
    lastInitiate,  \* the latest initiate request and how it ended
    tools,         \* McpHandler.tools: tool name -> registered tool
    response,      \* the latest JSON-RPC request and its response
    invoked        \* the handler the latest request invoked, and what it did

mcpVars == <<tools, response, invoked>>

vars == <<storeExists, intents, issued, now, calls, payTo, lastInitiate, mcpVars>>

\* ----------------------------------------------------------------- tasks
\* no paymentRequirements object has been built
NoTerms ==
    [network |-> Absent, asset |-> Absent, payTo |-> Absent,
     maxAmountRequired |-> Absent]

IdleCall ==
    [op |-> "idle", id |-> 0, hdr |-> Absent, pc |-> "idle", site |-> "none",
     reason |-> Absent, tx |-> Absent, order |-> NoOrder,
     verifyCalled |-> FALSE, settleCalled |-> FALSE, settled |-> FALSE,
     shopifyCalled |-> FALSE, terms |-> NoTerms,
     res |-> [msg |-> "none", detail |-> "none"]]

\* The task has ended: only what it returned or threw, and which external
\* calls it made, is kept.
Finish(call, msg, detail) ==
    [call EXCEPT !.pc = "done", !.hdr = Absent, !.reason = Absent,
                 !.tx = Absent, !.order = NoOrder,
                 !.res = [msg |-> msg, detail |-> detail]]

\* --------------------------------------------------------------- helpers
\* JSON.parse(Buffer.from(paymentHeader, 'base64').toString('utf-8')):
\* Buffer.from never throws, JSON.parse throws on text that is not JSON.
JsonParse(h) ==
    CASE h = "not-json"       -> [threw |-> TRUE,  value |-> Absent]
      [] h = "json-null"      -> [threw |-> FALSE, value |-> "null"]
      [] h = "signed-payment" -> [threw |-> FALSE, value |-> "object"]
      [] h = "unsigned-payment" -> [threw |-> FALSE, value |-> "object"]

\* The synchronous head of verifyPaymentWithFacilitator: the decode and the
\* construction of the /verify request body, which reads paymentData.x402Version
\* and so throws a TypeError when paymentData is null.
DecodeThrows(h) ==
    JsonParse(h).threw \/ JsonParse(h).value = "null"

\* Mutant of RowMissing: the null check is lost.
RowMissingUnchecked(row) == FALSE

\* if (!orderIntent): getOrderIntentById returned null
RowMissing(row) == row = NoRow

\* Mutant of NotPending: an expired intent is let through like a pending one.
NotPendingNorExpired(row) == row.status \notin {"pending", "expired"}

\* Mutant of NotPending: only a paid intent is refused.
NotPendingOnlyPaid(row) == row.status = "paid"

\* if (orderIntent.status !== 'pending')
NotPending(row) == row.status # "pending"

\* Mutant of IsExpired: the instant of expires_at counts as expired.
IsExpiredAtDeadline(row, t) == row.expires_at <= t

\* if (new Date(orderIntent.expires_at) < new Date())
IsExpired(row, t) == row.expires_at < t

\* Mutant of UpdateOrderStatus: the update also resets payment_proof.
UpdateOrderStatusAndProof(rows, i, status) ==
    IF rows[i] = NoRow THEN rows
    ELSE [rows EXCEPT ![i].status = status,
                      ![i].payment_proof = [transaction |-> "", signature |-> ""]]

\* .update({ status }).eq('id', id): rows that match are updated, a missing
\* row is no error.
UpdateOrderStatus(rows, i, status) ==
    IF rows[i] = NoRow THEN rows
    ELSE [rows EXCEPT ![i].status = status]

\* paymentProof.transaction: verificationResult.transactionHash || ''
ProofOf(call) ==
    [transaction |-> IF call.tx = Absent THEN "" ELSE call.tx,
     signature   |-> call.hdr]

\* .update({status: 'paid', payment_proof, shopify_order_id, ...}).eq('id', id)
UpdatePaid(rows, i, call) ==
    [rows EXCEPT ![i].status = "paid",
                 ![i].payment_proof = ProofOf(call),
                 ![i].shopify_order = call.order]

\* parseFloat(variant.price) of a price text with two decimals, in hundredths
ParseFloat(price) ==
    CASE price = "10.00" -> 1000
      [] price = "0.07"  -> 7
      [] price = "3.00"  -> 300

\* Mutant of UsdToMove: six decimals instead of eight.
UsdToMoveSixDecimals(hundredths) == hundredths * ((MoveUnit \div 100) \div 100)

\* usdToMove: BigInt(Math.round(usdAmount * 100_000_000)).  The argument is
\* a number of hundredths, for which the rounded product is exact.
UsdToMove(hundredths) == hundredths * (MoveUnit \div 100)

\* z.number().int().positive()
IsInt(q)      == q.tenths = 0
IsPositive(q) == q.int > 0 \/ (q.int = 0 /\ q.tenths > 0)

\* BigInt(item.quantity) throws a RangeError on a number that is no integer.
BigIntThrows(q) == ~IsInt(q)

\* priceInMove.toString(), totalAmountMicro.toString()
BigIntToString(n) == ToString(n)

\* The for loop of createOrderIntent over request.items: the first item that
\* fails throws, the others add an order item and their price to the total.
RECURSIVE BuildOrderItems(_, _)
BuildOrderItems(items, acc) ==
    IF items = <<>> \/ acc.error # Absent THEN acc
    ELSE LET item == Head(items)
             err(msg) == [acc EXCEPT !.error = msg]
         IN  IF item.product_id \notin DOMAIN Catalog
             THEN err(ErrProductNotFound)
             ELSE IF item.variant_id \notin DOMAIN Catalog[item.product_id]
             THEN err(ErrVariantNotFound)
             ELSE LET variant == Catalog[item.product_id][item.variant_id]
                      priceInMove == UsdToMove(ParseFloat(variant.price))
                  IN  IF ~variant.available THEN err(ErrVariantNotAvailable)
                      ELSE IF BigIntThrows(item.quantity) THEN err(ErrRangeError)
                      ELSE BuildOrderItems(Tail(items),
                             [acc EXCEPT
                                !.total = @ + priceInMove * item.quantity.int,
                                !.orderItems = Append(@,
                                   [product_id |-> item.product_id,
                                    variant_id |-> item.variant_id,
                                    quantity   |-> item.quantity,
                                    price      |-> BigIntToString(priceInMove)])])

\* Mutant of InsertOrderIntent: the items built before a failing item are kept.
InsertOrderIntentPartial(request, built) ==
    built.orderItems # <<>>

\* The insert is reached only when no item of the request threw.
InsertOrderIntent(request, built) ==
    built.error = Absent

\* Mutant of PaymentRequirementsOf: payTo is read from the store's current row.
PaymentRequirementsOfStore(row, storePayTo) ==
    [network |-> row.network, asset |-> row.asset, payTo |-> storePayTo,
     maxAmountRequired |-> row.total_amount]

\* paymentRequirements of the /verify body and of get_payment_requirements:
\* every member is a column of the order intent that was read.
PaymentRequirementsOf(row, storePayTo) ==
    [network |-> row.network, asset |-> row.asset, payTo |-> row.pay_to_address,
     maxAmountRequired |-> row.total_amount]

\* Mutant of InitiateRequirements: the amount is given in whole MOVE.
InitiateRequirementsInMove(built, storePayTo) ==
    [network |-> MovementNetwork, asset |-> MovementAsset, payTo |-> storePayTo,
     maxAmountRequired |-> BigIntToString(built.total \div MoveUnit)]

\* paymentRequirements returned by createOrderIntent: built from the
\* configuration, the store that was read and the total of the loop.
InitiateRequirements(built, storePayTo) ==
    [network |-> MovementNetwork, asset |-> MovementAsset, payTo |-> storePayTo,
     maxAmountRequired |-> BigIntToString(built.total)]

\* ------------------------------------------------------------------ Init
Init ==
    /\ storeExists = TRUE
    /\ intents = [i \in IntentIds |-> NoRow]
    /\ issued = 0
    /\ now = 0
    /\ calls = [c \in CallIds |-> IdleCall]
    /\ payTo \in Addresses
    /\ lastInitiate = [entry |-> "none", request |-> DefaultRequest, result |-> "none",
                       id |-> 0, requirements |-> NoTerms]
    /\ tools = NoTools
    /\ response = NoResponse
    /\ invoked = NotInvoked

\* --------------------------------------------------------------- actions
\* createOrderIntent, called from entry point entry with the request: the
\* store lookup, the loop over the items and the insert of a new pending row
\* with a fresh id.
CreateOrderIntent(entry, request) ==
    /\ issued < MaxIntents
    /\ LET built == BuildOrderItems(request.items,
                       [error |-> Absent, orderItems |-> <<>>, total |-> 0])
           log(result) == [entry |-> entry, request |-> request, result |-> result,
                           id |-> 0, requirements |-> NoTerms]
       IN  IF ~storeExists
           THEN /\ lastInitiate' = log(ErrStoreNotFound)
                /\ UNCHANGED <<intents, issued>>
           ELSE IF ~InsertOrderIntent(request, built)
           THEN /\ lastInitiate' = log(built.error)
                /\ UNCHANGED <<intents, issued>>
           ELSE /\ lastInitiate' = [log(Created) EXCEPT
                                       !.id = issued + 1,
                                       !.requirements =
                                          InitiateRequirements(built, payTo)]
                /\ issued' = issued + 1
                /\ intents' = [intents EXCEPT ![issued + 1] =
                      [status |-> "pending", payment_proof |-> NoProof,
                       shopify_order |-> NoOrder,
                       expires_at |-> now + ExpiryTicks,
                       items |-> built.orderItems,
                       total_amount |-> BigIntToString(built.total),
                       pay_to_address |-> payTo,
                       network |-> MovementNetwork,
                       asset |-> MovementAsset]]
    /\ UNCHANGED <<storeExists, now, calls, payTo>>

\* validate(createOrderIntentSchema, 'body'): at least one item, every
\* quantity an integer and positive.
SchemaAccepts(request) ==
    /\ Len(request.items) >= 1
    /\ \A k \in DOMAIN request.items :
          IsInt(request.items[k].quantity) /\ IsPositive(request.items[k].quantity)

\* POST /checkout/initiate: the validation middleware, then createOrderIntent.
CheckoutInitiate(request) ==
    /\ IF SchemaAccepts(request)
       THEN CreateOrderIntent("http", request)
       ELSE /\ issued < MaxIntents
            /\ lastInitiate' = [entry |-> "http", request |-> request,
                                result |-> ErrValidation,
                                id |-> 0, requirements |-> NoTerms]
            /\ UNCHANGED <<storeExists, intents, issued, now, calls, payTo>>
    /\ UNCHANGED mcpVars

\* Handler of the initiate_checkout tool: items and shipping_address must be
\* present, then createOrderIntent.  The dispatcher's variables are left to
\* the caller of the handler.
InitiateCheckoutTool(request) ==
    IF Len(request.items) = 0 \/ request.shipping_address = Absent
    THEN /\ issued < MaxIntents
         /\ lastInitiate' = [entry |-> "tool", request |-> request,
                             result |-> IF Len(request.items) = 0 THEN ErrToolItems
                                        ELSE ErrToolShipping,
                             id |-> 0, requirements |-> NoTerms]
         /\ UNCHANGED <<storeExists, intents, issued, now, calls, payTo>>
    ELSE CreateOrderIntent("tool", request)

\* updateStore with a new pay_to_address
UpdateStore(address) ==
    /\ storeExists
    /\ payTo' = address
    /\ UNCHANGED <<storeExists, intents, issued, now, calls, lastInitiate, mcpVars>>

\* time passes
Tick ==
    /\ now < MaxClock
    /\ now' = now + 1
    /\ UNCHANGED <<storeExists, intents, issued, calls, payTo, lastInitiate, mcpVars>>

\* deleteStore: order_intents.store_id REFERENCES stores(id) ON DELETE CASCADE
DeleteStore ==
    /\ storeExists
    /\ storeExists' = FALSE
    /\ intents' = [i \in IntentIds |-> NoRow]
    /\ UNCHANGED <<issued, now, calls, payTo, lastInitiate, mcpVars>>

\* Requests are numbered in the order in which they arrive.
MayStart(c) ==
    /\ calls[c].pc = "idle"
    /\ IF c = 1 THEN TRUE ELSE calls[c - 1].pc # "idle"

\* finalizeOrder up to its first suspension after getOrderIntentById.
FinalizeLoad(c, i, h) ==
    /\ MayStart(c)
    /\ LET row  == intents[i]
           call == [IdleCall EXCEPT !.op = "finalize", !.id = i, !.hdr = h]
       IN  calls' = [calls EXCEPT ![c] =
             IF RowMissing(row) THEN Finish(call, ErrNotFound, "none")
             ELSE IF NotPending(row) THEN Finish(call, ErrNotPending, row.status)
             ELSE IF IsExpired(row, now)
                  THEN [call EXCEPT !.pc = "wr_expired", !.hdr = Absent]
             ELSE IF DecodeThrows(h)
                  THEN [call EXCEPT !.pc = "wr_failed", !.site = "decode",
                                    !.hdr = Absent,
                                    !.reason = "Verification error"]
             ELSE [call EXCEPT !.pc = "verify",
                               !.terms = PaymentRequirementsOf(row, payTo)]]
    /\ UNCHANGED <<storeExists, intents, issued, now, payTo, lastInitiate, mcpVars>>

\* await this.updateOrderStatus(orderIntentId, 'expired'); throw
WriteExpired(c) ==
    /\ calls[c].pc = "wr_expired"
    /\ intents' = UpdateOrderStatus(intents, calls[c].id, "expired")
    /\ calls' = [calls EXCEPT ![c] = Finish(calls[c], ErrExpired, "none")]
    /\ UNCHANGED <<storeExists, issued, now, payTo, lastInitiate, mcpVars>>

\* POST /verify and the code after it, up to the POST /settle.
FacilitatorVerify(c, outcome, err) ==
    /\ calls[c].pc = "verify"
    /\ calls' = [calls EXCEPT ![c] =
         CASE outcome = "ok" ->
                [calls[c] EXCEPT !.verifyCalled = TRUE, !.pc = "settle"]
           [] outcome = "not_ok" ->
                [calls[c] EXCEPT !.verifyCalled = TRUE, !.pc = "wr_failed",
                     !.site = "verify",
                     !.reason = IF err = Absent
                                THEN "Facilitator verification failed" ELSE err]
           [] outcome = "threw" ->
                [calls[c] EXCEPT !.verifyCalled = TRUE, !.pc = "wr_failed",
                     !.site = "verify", !.reason = "Verification error"]]
    /\ UNCHANGED <<storeExists, intents, issued, now, payTo, lastInitiate, mcpVars>>

\* POST /settle and the code after it, up to storeService.getStoreById.
FacilitatorSettle(c, outcome, err, tx) ==
    /\ calls[c].pc = "settle"
    /\ calls' = [calls EXCEPT ![c] =
         CASE outcome = "ok" ->
                [calls[c] EXCEPT !.settleCalled = TRUE, !.settled = TRUE,
                     !.tx = tx, !.pc = "store"]
           [] outcome = "not_ok" ->
                [calls[c] EXCEPT !.settleCalled = TRUE, !.pc = "wr_failed",
                     !.site = "settle",
                     !.reason = IF err = Absent THEN "Settlement failed" ELSE err]
           [] outcome = "threw" ->
                [calls[c] EXCEPT !.settleCalled = TRUE, !.pc = "wr_failed",
                     !.site = "settle", !.reason = "Verification error"]]
    /\ UNCHANGED <<storeExists, intents, issued, now, payTo, lastInitiate, mcpVars>>

\* await this.updateOrderStatus(orderIntentId, 'failed'); throw
WriteFailed(c) ==
    /\ calls[c].pc = "wr_failed"
    /\ intents' = UpdateOrderStatus(intents, calls[c].id, "failed")
    /\ calls' = [calls EXCEPT ![c] =
                    Finish(calls[c], ErrVerification, calls[c].reason)]
    /\ UNCHANGED <<storeExists, issued, now, payTo, lastInitiate, mcpVars>>

\* storeService.getStoreById(orderIntent.store_id) after the settlement
StoreLookup(c, dbError) ==
    /\ calls[c].pc = "store"
    /\ calls' = [calls EXCEPT ![c] =
         IF dbError THEN Finish(calls[c], ErrGetStore, "none")
         ELSE IF ~storeExists THEN Finish(calls[c], ErrStoreNotFound, "none")
         ELSE [calls[c] EXCEPT !.pc = "fulfil"]]
    /\ UNCHANGED <<storeExists, intents, issued, now, payTo, lastInitiate, mcpVars>>

\* The try block: product lookup, line-item mapping, shopifyService.createOrder.
\* Every failure in it is caught and logged.
Fulfil(c, outcome) ==
    /\ calls[c].pc = "fulfil"
    /\ calls' = [calls EXCEPT ![c] =
         CASE outcome = "mapping_failed" ->
                [calls[c] EXCEPT !.pc = "wr_paid"]
           [] outcome = "order_failed" ->
                [calls[c] EXCEPT !.shopifyCalled = TRUE, !.pc = "wr_paid"]
           [] outcome = "order_created" ->
                [calls[c] EXCEPT !.shopifyCalled = TRUE, !.order = "order",
                                 !.pc = "wr_paid"]]
    /\ UNCHANGED <<storeExists, intents, issued, now, payTo, lastInitiate, mcpVars>>

\* The final update(...).eq('id', id).select().single() and the return.
WritePaid(c) ==
    /\ calls[c].pc = "wr_paid"
    /\ LET i == calls[c].id
       IN  IF intents[i] = NoRow
           THEN /\ intents' = intents
                /\ calls' = [calls EXCEPT ![c] = Finish(calls[c], ErrUpdate, "none")]
           ELSE /\ intents' = UpdatePaid(intents, i, calls[c])
                /\ calls' = [calls EXCEPT ![c] = Finish(calls[c], Returned, "paid")]
    /\ UNCHANGED <<storeExists, issued, now, payTo, lastInitiate, mcpVars>>

\* cancelOrderIntent up to its suspension on the update.
CancelLoad(c, i) ==
    /\ MayStart(c)
    /\ LET row  == intents[i]
           call == [IdleCall EXCEPT !.op = "cancel", !.id = i]
       IN  calls' = [calls EXCEPT ![c] =
             IF RowMissing(row) THEN Finish(call, ErrNotFound, "none")
             ELSE IF NotPending(row) THEN Finish(call, ErrCancelState, "none")
             ELSE [call EXCEPT !.pc = "wr_cancelled"]]
    /\ UNCHANGED <<storeExists, intents, issued, now, payTo, lastInitiate, mcpVars>>

\* update({status: 'cancelled'}).eq('id', id).select().single() and the return
WriteCancelled(c) ==
    /\ calls[c].pc = "wr_cancelled"
    /\ LET i == calls[c].id
       IN  IF intents[i] = NoRow
           THEN /\ intents' = intents
                /\ calls' = [calls EXCEPT ![c] = Finish(calls[c], ErrCancel, "none")]
           ELSE /\ intents' = UpdateOrderStatus(intents, i, "cancelled")
                /\ calls' = [calls EXCEPT ![c] = Finish(calls[c], Returned, "cancelled")]
    /\ UNCHANGED <<storeExists, issued, now, payTo, lastInitiate, mcpVars>>

\* Handler of the get_payment_requirements tool: one read of the intent.
GetPaymentRequirements(c, i) ==
    /\ MayStart(c)
    /\ LET row  == intents[i]
           call == [IdleCall EXCEPT !.op = "requirements", !.id = i]
       IN  calls' = [calls EXCEPT ![c] =
             IF RowMissing(row) THEN Finish(call, ErrNotFound, "none")
             ELSE IF NotPending(row) THEN Finish(call, ErrOrderNotPending, row.status)
             ELSE Finish([call EXCEPT !.terms = PaymentRequirementsOf(row, payTo)],
                         Returned, "payment_required")]
    /\ UNCHANGED <<storeExists, intents, issued, now, payTo, lastInitiate, mcpVars>>

\* status member of the verify_payment result: 'invalid' when the decode or
\* a member access throws, else by the presence of signature and transaction.
VerifyPaymentStatus(h) ==
    IF DecodeThrows(h) THEN "invalid"
    ELSE IF h = "signed-payment" THEN "valid_structure"
    ELSE "invalid_structure"

\* Mutant of VerifyPaymentTask: the tool asks the facilitator.
VerifyPaymentTaskViaFacilitator(h) ==
    [Finish([IdleCall EXCEPT !.op = "verify_payment", !.hdr = h],
            Returned, VerifyPaymentStatus(h)) EXCEPT !.verifyCalled = TRUE]

\* The verify_payment handler from start to return: it awaits nothing.
VerifyPaymentTask(h) ==
    Finish([IdleCall EXCEPT !.op = "verify_payment", !.hdr = h],
           Returned, VerifyPaymentStatus(h))

\* Handler of the verify_payment tool.  It takes no order intent id.
VerifyPaymentTool(c, h) ==
    /\ MayStart(c)
    /\ calls' = [calls EXCEPT ![c] = VerifyPaymentTask(h)]
    /\ UNCHANGED <<storeExists, intents, issued, now, payTo, lastInitiate, mcpVars>>

\* ------------------------------------------------------------- McpHandler
\* Map.has / Map.get / Map.set on the insertion-ordered tools map
MapHas(m, key) == \E k \in DOMAIN m : m[k].tool.name = key
MapGet(m, key) ==
    IF MapHas(m, key) THEN m[CHOOSE k \in DOMAIN m : m[k].tool.name = key]
    ELSE NoEntry
MapSet(m, key, entry) ==
    IF MapHas(m, key)
    THEN [k \in DOMAIN m |-> IF m[k].tool.name = key THEN entry ELSE m[k]]
    ELSE Append(m, entry)

\* Array.from(this.tools.values()).map(({ tool }) => tool)
ToolsList(m) == [k \in DOMAIN m |-> m[k].tool]

\* !params?.name: undefined and the empty string are falsy
NameMissing(params) == params.name \in {Absent, ""}

\* successResponse(id, result)
SuccessResponse(id, result) ==
    [jsonrpc |-> "2.0", id |-> id, result |-> result, error |-> NoError]
\* Mutant of ErrorResponse: an error reply carries no request id.
ErrorResponseNullId(id, code, message) ==
    [jsonrpc |-> "2.0", id |-> 0, result |-> NoResult,
     error |-> [code |-> code, message |-> message]]

\* errorResponse(id, code, message)
ErrorResponse(id, code, message) ==
    [jsonrpc |-> "2.0", id |-> id, result |-> NoResult,
     error |-> [code |-> code, message |-> message]]

\* typeof result === 'string' ? result : JSON.stringify(result, null, 2);
\* JSON.stringify throws a TypeError on a BigInt and gives undefined for
\* undefined.
StringifyThrows(outcome) == outcome.kind = "bigint"
TextOf(outcome) ==
    CASE outcome.kind = "string"    -> outcome.value
      [] outcome.kind = "undefined" -> Absent
      [] OTHER                      -> "json " \o outcome.value

\* error instanceof Error ? error.message : 'Tool execution failed'
MessageOf(outcome) ==
    IF StringifyThrows(outcome) THEN "Do not know how to serialize a BigInt"
    ELSE IF outcome.kind = "Error" THEN outcome.value
    ELSE "Tool execution failed"

\* JSON.stringify({ error: message })
JsonError(message) == "{\"error\":\"" \o message \o "\"}"

\* Mutant of ToolResponse: no catch, the rejection leaves handleRequest.
ToolResponseUncaught(id, outcome) ==
    IF outcome.threw \/ StringifyThrows(outcome)
    THEN [jsonrpc |-> Absent, id |-> 0, result |-> NoResult, error |-> NoError]
    ELSE SuccessResponse(id, [kind |-> "content", isError |-> FALSE,
                              text |-> TextOf(outcome), tools |-> <<>>])

\* The try / catch of handleToolsCall around the handler's outcome.
ToolResponse(id, outcome) ==
    IF outcome.threw \/ StringifyThrows(outcome)
    THEN SuccessResponse(id, [kind |-> "content", isError |-> TRUE,
                              text |-> JsonError(MessageOf(outcome)),
                              tools |-> <<>>])
    ELSE SuccessResponse(id, [kind |-> "content", isError |-> FALSE,
                              text |-> TextOf(outcome), tools |-> <<>>])

\* registerTool: this.tools.set(tool.name, { tool, handler })
RegisterTool(registration) ==
    /\ tools' = MapSet(tools, registration.tool.name, registration)
    /\ UNCHANGED <<storeExists, intents, issued, now, calls, payTo, lastInitiate,
                   response, invoked>>

\* Mutant of VersionRejected: the version is not looked at.
VersionUnchecked(request) == FALSE

\* if (request.jsonrpc !== '2.0')
VersionRejected(request) == request.jsonrpc # "2.0"

\* Mutant of ToolNotFoundResponse: the code of an unknown method.
ToolNotFoundAsMethodNotFound(request) ==
    IF NameMissing(request.params)
    THEN ErrorResponse(request.id, -32601, "Invalid params: tool name is required")
    ELSE ErrorResponse(request.id, -32601,
                       "Tool not found: " \o request.params.name)

\* handleToolsCall without a name, or with a name that tools.get does not find
ToolNotFoundResponse(request) ==
    IF NameMissing(request.params)
    THEN ErrorResponse(request.id, -32602, "Invalid params: tool name is required")
    ELSE ErrorResponse(request.id, -32602,
                       "Tool not found: " \o request.params.name)

\* Mutant of MethodNotFoundResponse: the code of invalid params.
MethodNotFoundAsInvalidParams(request) ==
    ErrorResponse(request.id, -32602, "Method not found: " \o request.method)

\* default: of the switch on request.method
MethodNotFoundResponse(request) ==
    ErrorResponse(request.id, -32601, "Method not found: " \o request.method)

\* handleRequest of a request that invokes no handler.
Dispatch(request) ==
    IF VersionRejected(request)
    THEN ErrorResponse(request.id, -32600, "Invalid Request: jsonrpc must be \"2.0\"")
    ELSE CASE request.method = "tools/list" ->
                SuccessResponse(request.id,
                    [kind |-> "tools", isError |-> FALSE, text |-> Absent,
                     tools |-> ToolsList(tools)])
           [] request.method = "initialize" ->
                SuccessResponse(request.id,
                    [kind |-> "initialize", isError |-> FALSE,
                     text |-> "2024-11-05", tools |-> <<>>])
           [] request.method = "ping" ->
                SuccessResponse(request.id,
                    [kind |-> "pong", isError |-> FALSE, text |-> Absent,
                     tools |-> <<>>])
           [] request.method = "tools/call" -> ToolNotFoundResponse(request)
           [] OTHER -> MethodNotFoundResponse(request)

\* The request reaches a registered handler.
Invokes(request) ==
    /\ ~VersionRejected(request)
    /\ request.method = "tools/call"
    /\ ~NameMissing(request.params)
    /\ MapHas(tools, request.params.name)

\* handleRequest, with the handler it awaits: outcome is what a stub handler
\* does; the initiate_checkout handler does what the order service makes it do.
HandleRequest(request, outcome) ==
    /\ IF ~Invokes(request)
       THEN /\ response' = [request |-> request, reply |-> Dispatch(request)]
            /\ invoked' = NotInvoked
            /\ UNCHANGED <<storeExists, intents, issued, now, calls, payTo,
                           lastInitiate>>
       ELSE LET entry == MapGet(tools, request.params.name)
            IN  IF entry.handler = "initiateCheckout"
                THEN /\ InitiateCheckoutTool(request.params.arguments)
                     /\ invoked' =
                          [handler |-> entry.handler,
                           outcome |->
                              IF lastInitiate'.result = Created
                              THEN [kind |-> "object", threw |-> FALSE,
                                    value |-> "payment_required"]
                              ELSE [kind |-> "Error", threw |-> TRUE,
                                    value |-> lastInitiate'.result]]
                     /\ response' =
                          [request |-> request,
                           reply |-> ToolResponse(request.id, invoked'.outcome)]
                ELSE /\ invoked' = [handler |-> entry.handler, outcome |-> outcome]
                     /\ response' = [request |-> request,
                                     reply |-> ToolResponse(request.id, outcome)]
                     /\ UNCHANGED <<storeExists, intents, issued, now, calls,
                                    payTo, lastInitiate>>
    /\ UNCHANGED tools

Outcomes == {"ok", "not_ok", "threw"}

Next ==
    \/ CheckoutInitiate(DefaultRequest)
    \/ Tick
    \/ DeleteStore
    \/ \E c \in CallIds, i \in IntentIds, h \in Headers : FinalizeLoad(c, i, h)
    \/ \E c \in CallIds : WriteExpired(c)
    \/ \E c \in CallIds, o \in Outcomes, e \in FacilitatorErrors :
          FacilitatorVerify(c, o, e)
    \/ \E c \in CallIds, o \in Outcomes, e \in FacilitatorErrors, t \in TxHashes :
          FacilitatorSettle(c, o, e, t)
    \/ \E c \in CallIds : WriteFailed(c)
    \/ \E c \in CallIds, dbError \in BOOLEAN : StoreLookup(c, dbError)
    \/ \E c \in CallIds,
          o \in {"mapping_failed", "order_failed", "order_created"} : Fulfil(c, o)
    \/ \E c \in CallIds : WritePaid(c)
    \/ \E c \in CallIds, i \in IntentIds : CancelLoad(c, i)
    \/ \E c \in CallIds : WriteCancelled(c)

Spec == Init /\ [][Next]_vars

\* The order lifecycle while the merchant edits the store's pay-to address
\* and agents ask for the payment requirements.
NextPayTo ==
    \/ Next
    \/ \E a \in Addresses : UpdateStore(a)
    \/ \E c \in CallIds, i \in IntentIds : GetPaymentRequirements(c, i)

SpecPayTo == Init /\ [][NextPayTo]_vars

\* The order lifecycle while agents validate payment headers.
NextTools ==
    \/ Next
    \/ \E c \in CallIds, h \in ToolHeaders : VerifyPaymentTool(c, h)

SpecTools == Init /\ [][NextTools]_vars

\* The two entry points of initiate, with every request.
NextInitiate ==
    \/ \E r \in Requests : CheckoutInitiate(r)
    \/ \E r \in Requests : InitiateCheckoutTool(r) /\ UNCHANGED mcpVars
    \/ DeleteStore

SpecInitiate == Init /\ [][NextInitiate]_vars

\* The dispatcher with the tools registered on it.
NextMcp ==
    \/ \E g \in Registrations : RegisterTool(g)
    \/ \E q \in McpRequests, o \in HandlerOutcomes : HandleRequest(q, o)

SpecMcp == Init /\ [][NextMcp]_vars

\* ================================================================ claims
\* Shorthands over the tasks.
IsFinalize(c) == calls[c].op = "finalize"
\* The task read status 'pending' on an unexpired intent and went on to
\* the verification of the payment.
Proceeding(c) ==
    calls[c].pc \in {"verify", "settle", "wr_failed", "store", "fulfil", "wr_paid"}
NoExternalCall(call) ==
    /\ ~call.verifyCalled
    /\ ~call.settleCalled
    /\ ~call.shopifyCalled
\* In this step task c runs finalizeOrder's load on intent i.
FinalizeLoads(c, i) ==
    /\ calls[c].pc = "idle"
    /\ calls'[c].op = "finalize"
    /\ calls'[c].id = i
\* Every row other than i is left as it is.
OthersUnchanged(i) ==
    \A j \in IntentIds \ {i} : intents'[j] = intents[j]

\* C1: two finalize calls that run concurrently on the same intent never
\* both pass the pending check and proceed to verify/settle: the second
\* one observes the conflict.
C1_FinalizeMutualExclusion ==
    \A c1, c2 \in CallIds :
        (c1 # c2 /\ IsFinalize(c1) /\ IsFinalize(c2)
               /\ calls[c1].id = calls[c2].id)
            => ~(Proceeding(c1) /\ Proceeding(c2))

\* C2: once the stored status of an intent is paid, failed, expired or
\* cancelled, no step changes that status.
C2_TerminalStatusNeverChanges ==
    [][\A i \in IntentIds :
          (intents[i].status \in Terminal /\ intents'[i] # NoRow)
              => intents'[i].status = intents[i].status]_vars

\* C3: a finalize call whose verify and settle steps both succeeded ends by
\* returning the paid intent, and the stored status is paid, whatever fails
\* in the fulfillment phase.
C3_SettledFinalizeReturnsPaid ==
    \A c \in CallIds :
        (IsFinalize(c) /\ calls[c].settled /\ calls[c].pc = "done"
               /\ intents[calls[c].id] # NoRow)
            => /\ calls[c].res = [msg |-> Returned, detail |-> "paid"]
               /\ intents[calls[c].id].status # "pending"

\* C4: the storefront order is requested only after the paid status has
\* been written: no state has a requested order and a pending intent.
C4_PaidWrittenBeforeFulfillment ==
    \A c \in CallIds :
        (IsFinalize(c) /\ calls[c].shopifyCalled)
            => intents[calls[c].id].status # "pending"

\* C5: a finalize call whose payload cannot be decoded fails without any
\* store write (the intent stays pending) and without a facilitator call.
C5_UndecodablePayloadLeavesPending ==
    [][\A c \in CallIds :
          (calls[c].site = "decode" /\ calls[c].pc # "done"
                 /\ calls'[c].pc = "done")
              => /\ intents' = intents
                 /\ NoExternalCall(calls'[c])]_vars

ErrorKind(res) == res.msg

\* C7: a finalize call whose settle step fails surfaces an error of a
\* different kind than the one a finalize call (here: on another intent)
\* surfaces when its verify step fails.
C7_SettleFailureHasOwnErrorKind ==
    \A c1, c2 \in CallIds :
        (/\ IsFinalize(c1) /\ calls[c1].pc = "done" /\ calls[c1].site = "verify"
         /\ IsFinalize(c2) /\ calls[c2].pc = "done" /\ calls[c2].site = "settle"
         /\ calls[c1].id # calls[c2].id)
            => ErrorKind(calls[c1].res) # ErrorKind(calls[c2].res)

C9_NonPendingFinalizeConflicts ==
    [][\A c \in CallIds, i \in IntentIds :
          (FinalizeLoads(c, i) /\ intents[i].status \in Terminal)
              => /\ calls'[c].pc = "done"
                 /\ calls'[c].res = [msg |-> ErrNotPending,
                                     detail |-> intents[i].status]
                 /\ NoExternalCall(calls'[c])
                 /\ intents' = intents
                 /\ storeExists' = storeExists]_vars

\* C9 witness: a finalize call on a paid intent has ended with the conflict
\* naming 'paid' and the intent still carries its payment proof.
C9_Witness ==
    \E c \in CallIds :
        /\ IsFinalize(c) /\ calls[c].pc = "done"
        /\ calls[c].res = [msg |-> ErrNotPending, detail |-> "paid"]
        /\ intents[calls[c].id].status = "paid"
        /\ intents[calls[c].id].payment_proof # NoProof

\* C10: a finalize call with an id that has no row ends at once with the
\* not-found error; no row is created or modified and no facilitator or
\* fulfillment call is made.
C10_MissingIntentNotFound ==
    [][\A c \in CallIds, i \in IntentIds :
          (FinalizeLoads(c, i) /\ intents[i] = NoRow)
              => /\ calls'[c].pc = "done"
                 /\ calls'[c].res.msg = ErrNotFound
                 /\ NoExternalCall(calls'[c])
                 /\ intents' = intents
                 /\ storeExists' = storeExists
                 /\ issued' = issued]_vars

\* C10 witness: a finalize call ended with the not-found error while another
\* intent exists, and its own id still has no row.
C10_Witness ==
    \E c \in CallIds :
        /\ IsFinalize(c) /\ calls[c].pc = "done"
        /\ calls[c].res.msg = ErrNotFound
        /\ intents[calls[c].id] = NoRow
        /\ \E j \in IntentIds : intents[j] # NoRow

\* ------------------------------------------------------- initiate, C11..C13
\* An item of a request that createOrderIntent cannot price: its product or
\* its variant is not in the catalog, or the variant is unavailable.
ItemUnavailable(item) ==
    \/ item.product_id \notin DOMAIN Catalog
    \/ item.variant_id \notin DOMAIN Catalog[item.product_id]
    \/ ~Catalog[item.product_id][item.variant_id].available

HasUnavailableItem(request) ==
    \E k \in DOMAIN request.items : ItemUnavailable(request.items[k])

\* The catalog price of a stored order item in smallest units: hundredths of
\* a dollar, at 1:1, with 8 decimals.
UnitPrice(item) ==
    ParseFloat(Catalog[item.product_id][item.variant_id].price) * 1000000

RECURSIVE SumOfItems(_)
SumOfItems(items) ==
    IF items = <<>> THEN 0
    ELSE UnitPrice(Head(items)) * Head(items).quantity.int + SumOfItems(Tail(items))

\* The latest step was an initiate that inserted row i.
Inserted(i) == intents[i] = NoRow /\ intents'[i] # NoRow

C12_BadItemPersistsNothing ==
    [][/\ (lastInitiate' # lastInitiate /\ HasUnavailableItem(lastInitiate'.request))
            => /\ intents' = intents
               /\ issued' = issued
               /\ lastInitiate'.result \notin {Created, "none"}
       /\ \A i \in IntentIds :
             Inserted(i) => ~HasUnavailableItem(lastInitiate'.request)]_vars

\* C12 witness: with one intent stored, a request whose first item is valid
\* and whose second item is an unavailable variant was refused, and the table
\* holds the one intent only.
C12_Witness ==
    /\ Len(lastInitiate.request.items) = 2
    /\ ~ItemUnavailable(lastInitiate.request.items[1])
    /\ IsInt(lastInitiate.request.items[1].quantity)
    /\ lastInitiate.request.items[2].variant_id = "vC"
    /\ lastInitiate.result = ErrVariantNotAvailable
    /\ issued = 1
    /\ intents[1] # NoRow
    /\ \A i \in IntentIds : i # 1 => intents[i] = NoRow

\* C13: every line item of every stored intent has a quantity that is a
\* positive integer, whichever entry point created it, and an initiate whose
\* request has a zero, negative or non-integer quantity does not end in a
\* created intent.
C13_QuantityPositive ==
    /\ \A i \in IntentIds :
          intents[i] # NoRow =>
              \A k \in DOMAIN intents[i].items :
                  /\ intents[i].items[k].quantity.tenths = 0
                  /\ intents[i].items[k].quantity.int > 0
    /\ (\E k \in DOMAIN lastInitiate.request.items :
            \/ lastInitiate.request.items[k].quantity.tenths # 0
            \/ lastInitiate.request.items[k].quantity.int <= 0)
          => lastInitiate.result # Created

\* ------------------------------------------------- payment terms, C14
\* The payment columns of an order intent row.
TermsStored(row) ==
    [network |-> row.network, asset |-> row.asset, payTo |-> row.pay_to_address,
     maxAmountRequired |-> row.total_amount]

\* C14: a row is inserted with the store's pay-to address of that moment and
\* the configured network and asset; no later step changes the payment
\* columns of a row; and the payment requirements a finalize call sends to
\* /verify, or get_payment_requirements reports, are the payment columns of
\* the row the call read, whatever the store's pay-to address is by then.
C14_PaymentTermsFrozen ==
    [][/\ \A i \in IntentIds :
             /\ Inserted(i) =>
                   /\ intents'[i].pay_to_address = payTo
                   /\ intents'[i].network = MovementNetwork
                   /\ intents'[i].asset = MovementAsset
             /\ (intents[i] # NoRow /\ intents'[i] # NoRow) =>
                   TermsStored(intents'[i]) = TermsStored(intents[i])
       /\ \A c \in CallIds :
             /\ calls'[c].terms # calls[c].terms =>
                   /\ calls[c].terms = NoTerms
                   /\ intents[calls'[c].id] # NoRow
                   /\ calls'[c].terms = TermsStored(intents[calls'[c].id])
             /\ (calls[c].pc = "verify" /\ calls'[c].verifyCalled) =>
                   calls[c].terms # NoTerms]_vars

\* C14 witness: after the store's pay-to address was changed, a finalize
\* call has sent /verify and a get_payment_requirements call has answered,
\* both with the address stored on the intent and not the store's.
C14_Witness ==
    \E c, d \in CallIds :
        /\ calls[c].op = "finalize" /\ calls[c].verifyCalled
        /\ calls[d].op = "requirements" /\ calls[d].res.msg = Returned
        /\ calls[c].id = calls[d].id
        /\ intents[calls[c].id] # NoRow
        /\ intents[calls[c].id].pay_to_address # payTo
        /\ calls[c].terms.payTo = intents[calls[c].id].pay_to_address
        /\ calls[d].terms.payTo = intents[calls[d].id].pay_to_address
        /\ calls[c].terms.maxAmountRequired = "2000000000"

\* ------------------------------------------------------------- cancel, C15
\* The latest step started cancelOrderIntent of call c on intent i.
CancelLoads(c, i) ==
    calls[c].pc = "idle" /\ calls'[c].op = "cancel" /\ calls'[c].id = i

\* C15: a cancel call on an id without a row fails with the not-found
\* error, and one on an intent whose status is not pending fails with the
\* cancel conflict error, both without writing; a cancel call returns
\* successfully only on an intent whose status is pending, and sets it to
\* cancelled and nothing else.
C15_CancelOnlyPending ==
    [][\A c \in CallIds :
          /\ \A i \in IntentIds :
                CancelLoads(c, i) =>
                   /\ intents' = intents
                   /\ intents[i] = NoRow =>
                         calls'[c].pc = "done" /\ calls'[c].res.msg = ErrNotFound
                   /\ (intents[i] # NoRow /\ intents[i].status # "pending") =>
                         calls'[c].pc = "done" /\ calls'[c].res.msg = ErrCancelState
          /\ (/\ calls[c].op = "cancel" /\ calls[c].pc # "done"
              /\ calls'[c].pc = "done" /\ calls'[c].res.msg = Returned) =>
                LET i == calls[c].id
                IN  /\ intents[i].status = "pending"
                    /\ intents'[i] = [intents[i] EXCEPT !.status = "cancelled"]
                    /\ OthersUnchanged(i)]_vars

\* ------------------------------------------------- dispatcher, C16..C20
\* The latest step was a handleRequest: registerTool is the only operation
\* that changes the tools map.  response' then holds its request and reply.
Handled == tools' = tools

\* the name is a key of the tools map
Registered(name) == \E k \in DOMAIN tools : tools[k].tool.name = name

\* the request carries no tool name
NoToolName(request) == request.params.name \in {Absent, ""}

IsToolsCall(request) == request.jsonrpc = "2.0" /\ request.method = "tools/call"

\* Nothing outside the dispatcher's own reply changed, and no handler ran.
NoHandlerEffect ==
    /\ invoked' = NotInvoked
    /\ intents' = intents
    /\ issued' = issued
    /\ lastInitiate' = lastInitiate
    /\ storeExists' = storeExists

\* C16: a tools/call that carries no tool name, or names a tool that is not
\* registered, is answered with error code -32602 and no result, and no
\* handler is invoked.
C16_UnknownToolInvalidParams ==
    [][(/\ Handled
        /\ IsToolsCall(response'.request)
        /\ \/ NoToolName(response'.request)
           \/ ~Registered(response'.request.params.name))
          => /\ response'.reply.error.code = -32602
             /\ response'.reply.result = NoResult
             /\ NoHandlerEffect]_vars

\* C16 witness: with a tool registered, a tools/call naming another tool was
\* answered -32602 without a result.
C16_Witness ==
    /\ tools # NoTools
    /\ IsToolsCall(response.request)
    /\ response.request.params.name = "list_stores"
    /\ ~Registered("list_stores")
    /\ response.reply.error.code = -32602
    /\ response.reply.result = NoResult
    /\ invoked = NotInvoked

\* C17: a tools/call that names a registered tool is answered with a success
\* envelope (jsonrpc 2.0, the request's id, a content result and no error
\* member) whatever the handler does; when the handler throws, the result has
\* isError true and its text is the JSON of the thrown Error's message; when
\* it returns a string or an object, the result has no isError.
C17_HandlerErrorsInEnvelope ==
    [][(/\ Handled
        /\ IsToolsCall(response'.request)
        /\ ~NoToolName(response'.request)
        /\ Registered(response'.request.params.name))
          => /\ invoked'.handler # Absent
             /\ response'.reply.jsonrpc = "2.0"
             /\ response'.reply.id = response'.request.id
             /\ response'.reply.error = NoError
             /\ response'.reply.result.kind = "content"
             /\ invoked'.outcome.threw => response'.reply.result.isError
             /\ (invoked'.outcome.threw /\ invoked'.outcome.kind = "Error") =>
                   response'.reply.result.text =
                      "{\"error\":\"" \o invoked'.outcome.value \o "\"}"
             /\ (~invoked'.outcome.threw /\ invoked'.outcome.kind \in {"string", "object"})
                   => ~response'.reply.result.isError]_vars

\* C17 witness: the initiate_checkout handler threw 'Variant not found' and
\* the reply is a success envelope with isError and that message.
C17_Witness ==
    /\ invoked.handler = "initiateCheckout"
    /\ invoked.outcome.threw
    /\ lastInitiate.result = ErrVariantNotFound
    /\ response.reply.error = NoError
    /\ response.reply.result.isError
    /\ response.reply.result.text = "{\"error\":\"Variant not found\"}"

\* C18: a request whose jsonrpc member is not "2.0" is answered with error
\* code -32600 and no result whatever its method and params; no handler is
\* invoked and no order intent is created or changed.
C18_VersionRejectedBeforeDispatch ==
    [][(Handled /\ response'.request.jsonrpc # "2.0")
          => /\ response'.reply.error.code = -32600
             /\ response'.reply.result = NoResult
             /\ NoHandlerEffect]_vars

\* C18 witness: a version-1.0 tools/call naming the registered
\* initiate_checkout tool was answered -32600 and no handler ran.
C18_Witness ==
    /\ Registered("initiate_checkout")
    /\ response.request.jsonrpc = "1.0"
    /\ response.request.method = "tools/call"
    /\ response.request.params.name = "initiate_checkout"
    /\ response.reply.error.code = -32600
    /\ invoked = NotInvoked

\* C19: a version-2.0 request whose method is none of initialize, ping,
\* tools/list and tools/call is answered with error code -32601 and no
\* result, a code that differs from the one an unknown tool gets, and changes
\* nothing.
C19_UnknownMethodCode ==
    [][(/\ Handled
        /\ response'.request.jsonrpc = "2.0"
        /\ response'.request.method
              \notin {"initialize", "ping", "tools/list", "tools/call"})
          => /\ response'.reply.error.code = -32601
             /\ response'.reply.result = NoResult
             /\ response'.reply.error.code
                   # ToolNotFoundResponse(response'.request).error.code
             /\ NoHandlerEffect]_vars

\* C19 witness: a resources/list request was answered -32601 after a
\* tools/call handler had created an intent, which is still there.
C19_Witness ==
    /\ response.request.jsonrpc = "2.0"
    /\ response.request.method = "resources/list"
    /\ response.reply.error.code = -32601
    /\ invoked = NotInvoked
    /\ issued = 1
    /\ lastInitiate.entry = "tool"

\* names of the entries of a tools map
ListedNames(m) == {m[k].tool.name : k \in DOMAIN m}

\* C20: registerTool adds the tool under its name or replaces the entry of
\* that name, leaving the other entries; tools/list returns the registered
\* tools, one per name, with description and input schema; and a tools/call
\* that names a tool reaches a handler if and only if the name is listed.
C20_ListedIffCallable ==
    [][/\ tools' # tools =>
             \E g \in Registrations :
                 /\ ListedNames(tools') = ListedNames(tools) \cup {g.tool.name}
                 /\ Len(tools') = Cardinality(ListedNames(tools'))
                 /\ \A k \in DOMAIN tools' :
                       IF tools'[k].tool.name = g.tool.name THEN tools'[k] = g
                       ELSE k \in DOMAIN tools /\ tools'[k] = tools[k]
       /\ (/\ Handled /\ response'.request.jsonrpc = "2.0"
           /\ response'.request.method = "tools/list")
             => /\ Len(response'.reply.result.tools) = Cardinality(ListedNames(tools))
                /\ \A k \in DOMAIN tools :
                      response'.reply.result.tools[k] = tools[k].tool
       /\ (/\ Handled /\ IsToolsCall(response'.request)
           /\ response'.request.params.name # Absent)
             => (invoked'.handler # Absent
                   <=> response'.request.params.name \in ListedNames(tools))]_vars

\* ------------------------------------------------------ verify_payment, C21
\* C21: a verify_payment call ends in the step that starts it, having made
\* no facilitator verify or settle call, and leaves every order intent (its
\* status and payment_proof included) and every other request as it was.
C21_VerifyPaymentToolStructuralOnly ==
    [][\A c \in CallIds :
          (calls[c].pc = "idle" /\ calls'[c].op = "verify_payment")
             => /\ calls'[c].pc = "done"
                /\ calls'[c].res.msg = Returned
                /\ NoExternalCall(calls'[c])
                /\ intents' = intents
                /\ \A d \in CallIds \ {c} : calls'[d] = calls[d]]_vars

\* C21 witness: a payload was validated as well-formed while the intent was
\* pending, and a finalize that started later on that intent returned paid.
C21_Witness ==
    \E c, d \in CallIds :
        /\ c < d
        /\ calls[c].op = "verify_payment"
        /\ calls[c].res = [msg |-> Returned, detail |-> "valid_structure"]
        /\ IsFinalize(d)
        /\ calls[d].res = [msg |-> Returned, detail |-> "paid"]
        /\ intents[calls[d].id].status = "paid"

\* ------------------------------------------- payment and audit, C22..C25
\* C22: for one intent, the storefront order creation is requested by at
\* most one finalize call.
C22_FulfillmentAttemptedOnce ==
    \A c, d \in CallIds :
        (c # d /\ IsFinalize(c) /\ IsFinalize(d) /\ calls[c].id = calls[d].id)
            => ~(calls[c].shopifyCalled /\ calls[d].shopifyCalled)

\* C23: a stored intent has a payment_proof if and only if its status is paid.
C23_ProofIffPaid ==
    \A i \in IntentIds :
        intents[i] # NoRow =>
            (intents[i].payment_proof # NoProof <=> intents[i].status = "paid")

\* C24: the payment_proof of every paid intent has a transaction reference
\* that is not empty.
C24_PaidProofHasTransaction ==
    \A i \in IntentIds :
        (intents[i] # NoRow /\ intents[i].status = "paid")
            => /\ intents[i].payment_proof # NoProof
               /\ intents[i].payment_proof.transaction # ""

\* C25: every order intent that was inserted is still in the table.
C25_IntentsNeverDeleted ==
    \A i \in IntentIds : i <= issued => intents[i] # NoRow

\* ------------------------------------------------------------ expiry, C26
\* C26: a finalize call that reads a pending intent treats it as expired
\* exactly when the clock is strictly later than expires_at.  If it is, the
\* call makes no facilitator call, builds no verify request, writes status
\* expired and raises the expired error; if it is not, the call enters the
\* payment verification.  A facilitator call is only made by a call that
\* was not treated as expired.
C26_ExpiryCheckedBeforeFacilitator ==
    [][\A c \in CallIds :
          /\ \A i \in IntentIds :
                (FinalizeLoads(c, i) /\ intents[i].status = "pending") =>
                    IF now > intents[i].expires_at
                    THEN /\ calls'[c].pc = "wr_expired"
                         /\ NoExternalCall(calls'[c])
                         /\ calls'[c].terms = NoTerms
                         /\ intents' = intents
                    ELSE /\ calls'[c].pc \in {"verify", "wr_failed"}
                         /\ calls'[c].pc = "wr_failed" => calls'[c].site = "decode"
          /\ (calls[c].pc = "wr_expired" /\ calls'[c] # calls[c]) =>
                /\ calls'[c].pc = "done"
                /\ calls'[c].res.msg = ErrExpired
                /\ NoExternalCall(calls'[c])
                /\ intents[calls[c].id] # NoRow =>
                      intents'[calls[c].id].status = "expired"
          /\ (~NoExternalCall(calls'[c]) /\ NoExternalCall(calls[c])) =>
                /\ calls[c].pc = "verify"
                /\ calls[c].terms # NoTerms]_vars

\* C26 witness: on one intent, a finalize call that started in time has
\* called the facilitator, and a later one ended with the expired error
\* without any external call.
C26_Witness ==
    \E c, d \in CallIds :
        /\ c < d /\ IsFinalize(c) /\ IsFinalize(d)
        /\ calls[c].id = calls[d].id
        /\ calls[c].verifyCalled
        /\ calls[d].pc = "done" /\ calls[d].res.msg = ErrExpired
        /\ NoExternalCall(calls[d])
        /\ now > intents[calls[d].id].expires_at

\* ------------------------------------------- returned requirements, C27
\* C27: while an initiate call that created an intent is the latest one,
\* the paymentRequirements it returned name the pay-to address, the total
\* amount, the network and the asset stored on the intent it created, and
\* every finalize call on that intent that has built its /verify request
\* sends these same four values, whatever the store's address is by then.
C27_ReturnedRequirementsMatchIntent ==
    lastInitiate.result = Created =>
        /\ lastInitiate.id \in IntentIds
        /\ lastInitiate.requirements # NoTerms
        /\ intents[lastInitiate.id] # NoRow =>
              lastInitiate.requirements = TermsStored(intents[lastInitiate.id])
        /\ \A c \in CallIds :
              (IsFinalize(c) /\ calls[c].id = lastInitiate.id
                  /\ calls[c].terms # NoTerms)
                 => calls[c].terms = lastInitiate.requirements

\* C27 witness: the store's pay-to address was changed after the initiate,
\* and a finalize call on the created intent has sent /verify with the
\* requirements the initiate returned.
C27_Witness ==
    /\ lastInitiate.result = Created
    /\ lastInitiate.requirements.payTo # payTo
    /\ lastInitiate.requirements.maxAmountRequired = "2000000000"
    /\ intents[lastInitiate.id] # NoRow
    /\ \E c \in CallIds :
          /\ IsFinalize(c) /\ calls[c].id = lastInitiate.id
          /\ calls[c].verifyCalled
          /\ calls[c].terms = lastInitiate.requirements

\* --------------------------------------------------- single settlement, C28
\* C28: no two finalize calls on one intent both have a settlement that
\* the facilitator completed successfully.
C28_SettledAtMostOnce ==
    \A c, d \in CallIds :
        (c # d /\ IsFinalize(c) /\ IsFinalize(d) /\ calls[c].id = calls[d].id)
            => ~(calls[c].settled /\ calls[d].settled)

\* ------------------------------------------------- response envelope, C29
\* C29: every reply of handleRequest has jsonrpc "2.0", the id of the
\* request it answers, and exactly one of the members result and error.
C29_ResponseEnvelope ==
    response # NoResponse =>
        /\ response.reply.jsonrpc = "2.0"
        /\ response.reply.id = response.request.id
        /\ (response.reply.result = NoResult) # (response.reply.error = NoError)

\* C29 witness: the second request of a client named a registered tool
\* whose handler threw; the reply is a result (the error text as content,
\* isError set) with the request's id and no error member.
C29_Witness ==
    /\ response.request.id = 2
    /\ response.request.method = "tools/call"
    /\ invoked # NotInvoked
    /\ invoked.outcome.threw
    /\ response.reply.id = 2
    /\ response.reply.result.isError
    /\ response.reply.error = NoError

\* ------------------------------------------------------ HTTP status, C30
\* String.prototype.includes
Includes(text, needle) ==
    \E k \in 1..(Len(text) - Len(needle) + 1) :
        SubSeq(text, k, k + Len(needle) - 1) = needle

\* errorHandler: the status is chosen by what the message contains.
ErrorHandler(message) ==
    IF Includes(message, "not found") THEN 404
    ELSE IF Includes(message, "already exists") THEN 409
    ELSE IF Includes(message, "not available") \/ Includes(message, "expired")
    THEN 400
    ELSE 500

\* The message of the Error finalizeOrder throws: the conflict names the
\* status that was read, the verification failure the facilitator's reason.
ErrorMessage(res) ==
    IF res.msg = ErrNotPending THEN ErrNotPending \o ": " \o res.detail
    ELSE IF res.msg = ErrVerification THEN ErrVerification \o ": " \o res.detail
    ELSE res.msg

\* POST /checkout/finalize: res.json on success, next(err) otherwise.
FinalizeHttpStatus(res) ==
    IF res.msg = Returned THEN 200 ELSE ErrorHandler(ErrorMessage(res))

\* C30: a finalize call that ended is answered 404 only when the intent or
\* its store was not found, and 400 only when the intent had expired; a
\* conflict or a payment failure is answered with neither.
C30_StatusByErrorKind ==
    \A c \in CallIds :
        (IsFinalize(c) /\ calls[c].pc = "done") =>
            /\ FinalizeHttpStatus(calls[c].res) = 404
                  => calls[c].res.msg \in {ErrNotFound, ErrStoreNotFound}
            /\ FinalizeHttpStatus(calls[c].res) = 400
                  => calls[c].res.msg = ErrExpired

====
